---- MODULE Spec2Model ----
(***************************************************************************)
(* A model of src/main.py: the weather application's single interaction   *)
(* (one run of main): the location directory lookup and its XML parse,    *)
(* the cascading prefecture/city selection, the resolution of the city    *)
(* code, the forecast fetch, the current precipitation reading and the    *)
(* three-day table.                                                       *)
(*                                                                         *)
(* Python values are modelled as follows.  A str is a string; None in a   *)
(* place that otherwise holds a str is the string None.  A list is a      *)
(* sequence, a dict a record or a function over its keys; None in a place *)
(* that otherwise holds a list or a dict is the record Absent, and a list *)
(* in such a place is the record ListVal(l), so that the two compare.     *)
(* Python list indices are 0-based: the element with Python index i is    *)
(* s[i+1].                                                                 *)
(* Japanese names are written in Latin letters.                           *)
(***************************************************************************)
EXTENDS Integers, Sequences, FiniteSets, TLC

VARIABLES
    pc,                       \* where the run of main stands
    xml,                      \* the document the location feed serves
    json,                     \* the body the forecast feed serves
    location_data,            \* main: location_data
    default_pref_index,       \* main: default_pref_index
    selected_prefecture_name, \* main: selected_prefecture_name
    selected_cities,          \* main: selected_cities
    default_city_index,       \* main: default_city_index
    selected_city_name,       \* main: selected_city_name
    city_code,                \* main: city_code
    weather_json,             \* main: weather_json
    now_hour,                 \* main: now_hour
    weather_now,              \* main: weather_now
    data,                     \* main: data
    df,                       \* main: df, the table handed to st.dataframe
    rendered,                 \* what the run has put on the page, in order
    lookups,                  \* calls of get_location_data_from_xml
    fetches,                  \* calls of get_weather_forecast
    status                    \* how the run ended ("running" until then)

vars == <<pc, xml, json, location_data, default_pref_index, selected_prefecture_name,
          selected_cities, default_city_index, selected_city_name, city_code,
          weather_json, now_hour, weather_now, data, df, rendered, lookups,
          fetches, status>>

---------------------------------------------------------------------------
(* Values *)

None == "None"

Absent == [absent |-> TRUE]

DEFAULT_PREF == "Tokyo-to"

DEFAULT_CITY == "Tokyo"

OTHER_PREF == "Osaka-fu"

OTHER_CITY == "Osaka"

Placeholder == "--"

\* Python truthiness of an Optional[str]: None and "" are falsy.
TruthyStr(s) == s # None /\ s # ""

ListVal(l) == [list |-> l]

IsAbsent(d) == "absent" \in DOMAIN d

\* A test for None alone, which lets an empty list through.
TruthyListNotNone(l) == ~IsAbsent(l)

\* Python truthiness of an Optional[list]: None and [] are falsy.
TruthyList(l) == ~IsAbsent(l) /\ l.list # <<>>

\* Python truthiness of an Optional[dict]: None and {} are falsy.
TruthyDict(d) == ~IsAbsent(d) /\ DOMAIN d # {}

\* dict.get(key, default)
Get(d, key, default) == IF key \in DOMAIN d THEN d[key] ELSE default

Min(a, b) == IF a <= b THEN a ELSE b

---------------------------------------------------------------------------
(* Bounds *)

\* A location document holds at most MaxElems elements, pref and city together.
MaxElems == 4

\* A forecast response holds at most MaxDays days.
MaxDays == 4

\* The hours tried outside the clock's 0..23, on either side.
HourSlack == 2

---------------------------------------------------------------------------
(* The location feed: documents of pref elements with city children *)

PrefTitleAttrs == {None, "", DEFAULT_PREF, OTHER_PREF}

CityIdAttrs == {None, "130010", "130020"}

CityTitleAttrs == {"", DEFAULT_CITY, OTHER_CITY}

CityElems == [id : CityIdAttrs, title : CityTitleAttrs]

\* The shapes of a document of at most n elements: the number of city
\* children of each of its pref elements, in document order.
RECURSIVE ShapesUpTo(_)
ShapesUpTo(n) ==
    IF n = 0 THEN {<<>>}
    ELSE {<<>>} \cup
         UNION { { <<m>> \o rest : rest \in ShapesUpTo(n - 1 - m) } :
                 m \in 0..(n - 1) }

RECURSIVE SumTo(_, _)
SumTo(shape, k) == IF k = 0 THEN 0 ELSE SumTo(shape, k - 1) + shape[k]

\* The document of the given shape whose pref elements carry the titles and
\* whose city elements are, in document order, the given ones.
MakeDoc(shape, titles, celems) ==
    [i \in 1..Len(shape) |->
        [title  |-> titles[i],
         cities |-> [j \in 1..shape[i] |-> celems[SumTo(shape, i - 1) + j]]]]

DocShapes == ShapesUpTo(MaxElems)

---------------------------------------------------------------------------
(* get_location_data_from_xml *)

\* for city_elem in pref_elem.findall('./city'): ... cities_list.append(...)
RECURSIVE CitiesLoop(_, _, _)
CitiesLoop(elems, i, cities_list) ==
    IF i > Len(elems) THEN cities_list
    ELSE LET city_id == elems[i].id
             city_name == elems[i].title
         IN  CitiesLoop(elems, i + 1,
                 IF TruthyStr(city_id) /\ TruthyStr(city_name)
                 THEN Append(cities_list, [id |-> city_id, name |-> city_name])
                 ELSE cities_list)

\* A loop that keeps a titled prefecture even when no city of it survived.
RECURSIVE PrefsLoopKeepEmpty(_, _, _)
PrefsLoopKeepEmpty(elems, i, location_list) ==
    IF i > Len(elems) THEN location_list
    ELSE LET pref_name == elems[i].title
             cities_list == CitiesLoop(elems[i].cities, 1, <<>>)
         IN  PrefsLoopKeepEmpty(elems, i + 1,
                 IF ~TruthyStr(pref_name) THEN location_list
                 ELSE Append(location_list,
                             [name |-> pref_name, cities |-> cities_list]))

\* for pref_elem in root.findall('.//pref'): ... location_list.append(...)
RECURSIVE PrefsLoop(_, _, _)
PrefsLoop(elems, i, location_list) ==
    IF i > Len(elems) THEN location_list
    ELSE LET pref_name == elems[i].title
             cities_list == CitiesLoop(elems[i].cities, 1, <<>>)
         IN  PrefsLoop(elems, i + 1,
                 IF ~TruthyStr(pref_name) THEN location_list
                 ELSE IF cities_list # <<>>
                      THEN Append(location_list,
                                  [name |-> pref_name, cities |-> cities_list])
                      ELSE location_list)

ParseXml(doc) == PrefsLoop(doc, 1, <<>>)

\* The ways get_location_data_from_xml ends: with the parsed list, or with
\* None after one of its four except clauses reported the failure.
LookupOutcomes == {"ok", "timeout", "request_error", "parse_error", "error"}

LookupErrorMessage(outcome) ==
    CASE outcome = "timeout"       -> "error_lookup_timeout"
      [] outcome = "request_error" -> "error_lookup_failed"
      [] outcome = "parse_error"   -> "error_lookup_parse"
      [] OTHER                     -> "error_lookup_unexpected"

---------------------------------------------------------------------------
(* main, lines 86-102: the directory lookup and the default prefecture *)

PrefectureList(directory) == [i \in 1..Len(directory) |-> directory[i].name]

\* list.index(x): the 0-based position of the first element equal to x,
\* -1 standing for ValueError.
RECURSIVE IndexFrom(_, _, _)
IndexFrom(list, x, i) ==
    IF i > Len(list) THEN -1
    ELSE IF list[i] = x THEN i - 1
    ELSE IndexFrom(list, x, i + 1)

ListIndex(list, x) == IndexFrom(list, x, 1)

DefaultPrefIndex(prefecture_list) ==
    LET i == ListIndex(prefecture_list, DEFAULT_PREF)
    IN  IF i = -1 THEN 0 ELSE i

InitRun ==
    /\ pc = "start"
    /\ location_data = Absent
    /\ default_pref_index = 0
    /\ selected_prefecture_name = None
    /\ selected_cities = <<>>
    /\ default_city_index = 0
    /\ selected_city_name = None
    /\ city_code = None
    /\ weather_json = Absent
    /\ now_hour = 0
    /\ weather_now = Placeholder
    /\ data = <<>>
    /\ df = Absent
    /\ rendered = <<>>
    /\ lookups = 0
    /\ fetches = 0
    /\ status = "running"

LookupWith(outcome) ==
    LET result == IF outcome = "ok" THEN ListVal(ParseXml(xml)) ELSE Absent
        shown  == IF outcome = "ok" THEN <<>>
                  ELSE <<LookupErrorMessage(outcome)>>
    IN  /\ pc = "start"
        /\ location_data' = result
        /\ lookups' = lookups + 1
        /\ IF ~TruthyList(result)
           THEN /\ rendered' = rendered \o shown \o <<"error_init">>
                /\ pc' = "done"
                /\ status' = "init_failed"
                /\ default_pref_index' = default_pref_index
           ELSE /\ rendered' = rendered \o shown
                /\ pc' = "select_pref"
                /\ status' = status
                /\ default_pref_index' =
                       DefaultPrefIndex(PrefectureList(result.list))
        /\ UNCHANGED <<xml, json, selected_prefecture_name, selected_cities,
                       default_city_index, selected_city_name, city_code,
                       weather_json, now_hour, weather_now, data, df, fetches>>

Lookup == \E outcome \in LookupOutcomes : LookupWith(outcome)

\* The feed serves any document of one of the given shapes.
InitDoc(shapes) ==
    \E shape \in shapes :
         \E titles \in [1..Len(shape) -> PrefTitleAttrs] :
            \E celems \in [1..SumTo(shape, Len(shape)) -> CityElems] :
                xml = MakeDoc(shape, titles, celems)

---------------------------------------------------------------------------
(* main, lines 104-127: the prefecture selection and the default city *)

\* for pref_data in location_data: if pref_data['name'] == ...: ...; break
\* The position of the first prefecture of that name, 0 when there is none.
RECURSIVE FindPrefFrom(_, _, _)
FindPrefFrom(directory, name, i) ==
    IF i > Len(directory) THEN 0
    ELSE IF directory[i].name = name THEN i
    ELSE FindPrefFrom(directory, name, i + 1)

FindPref(directory, name) ==
    IF ~TruthyStr(name) THEN 0 ELSE FindPrefFrom(directory, name, 1)

SelectedCities(directory, name) ==
    LET i == FindPref(directory, name)
    IN  IF i = 0 THEN <<>> ELSE directory[i].cities

CityList(cities) == [i \in 1..Len(cities) |-> cities[i].name]

\* A default city that sticks to every prefecture holding a city of that name.
DefaultCityIndexAnyPref(directory, name) ==
    LET i == FindPref(directory, name)
    IN  IF i = 0 THEN 0
        ELSE LET j == ListIndex(CityList(directory[i].cities), DEFAULT_CITY)
             IN  IF j = -1 THEN 0 ELSE j

DefaultCityIndex(directory, name) ==
    LET i == FindPref(directory, name)
    IN  IF i = 0 THEN 0
        ELSE IF name = DEFAULT_PREF
             THEN LET j == ListIndex(CityList(directory[i].cities), DEFAULT_CITY)
                  IN  IF j = -1 THEN 0 ELSE j
             ELSE 0

\* What st.selectbox returns for the prefecture: one of its options.
ListedPrefectures ==
    IF IsAbsent(location_data) THEN {}
    ELSE { location_data.list[i].name : i \in 1..Len(location_data.list) }

SelectPrefecture(choices) ==
    /\ pc = "select_pref"
    /\ \E name \in choices :
         /\ selected_prefecture_name' = name
         /\ selected_cities' = SelectedCities(location_data.list, name)
         /\ default_city_index' = DefaultCityIndex(location_data.list, name)
    /\ pc' = "select_city"
    /\ UNCHANGED <<xml, json, location_data, default_pref_index, selected_city_name,
                   city_code, weather_json, now_hour, weather_now, data, df,
                   rendered, lookups, fetches, status>>

---------------------------------------------------------------------------
(* main, lines 129-148: the city selection and the city code *)

\* for city_data in selected_cities: if city_data['name'] == ...: ...; break
RECURSIVE CodeFrom(_, _, _)
CodeFrom(cities, name, i) ==
    IF i > Len(cities) THEN None
    ELSE IF cities[i].name = name THEN cities[i].id
    ELSE CodeFrom(cities, name, i + 1)

\* A loop without the break: the last city of that name wins.
RECURSIVE CodeLastFrom(_, _, _)
CodeLastFrom(cities, name, i) ==
    IF i = 0 THEN None
    ELSE IF cities[i].name = name THEN cities[i].id
    ELSE CodeLastFrom(cities, name, i - 1)

ResolveCodeLast(cities, name) ==
    IF TruthyStr(name) /\ cities # <<>>
    THEN CodeLastFrom(cities, name, Len(cities))
    ELSE None

ResolveCode(cities, name) ==
    IF TruthyStr(name) /\ cities # <<>>
    THEN CodeFrom(cities, name, 1)
    ELSE None

\* What st.selectbox returns for the city: one of its options, None when it
\* has none.
ListedCities ==
    IF selected_cities = <<>> THEN {None}
    ELSE { selected_cities[i].name : i \in 1..Len(selected_cities) }

SelectCity(choices) ==
    /\ pc = "select_city"
    /\ \E name \in choices :
         LET code == ResolveCode(selected_cities, name)
         IN  /\ selected_city_name' = name
             /\ city_code' = code
             /\ IF ~TruthyStr(code)
                THEN /\ rendered' = rendered \o <<"warning_select">>
                     /\ pc' = "done"
                     /\ status' = "selection_incomplete"
                ELSE /\ rendered' = rendered \o <<"selected">>
                     /\ pc' = "fetch"
                     /\ status' = status
    /\ UNCHANGED <<xml, json, location_data, default_pref_index,
                   selected_prefecture_name, selected_cities,
                   default_city_index, weather_json, now_hour, weather_now,
                   data, df, lookups, fetches>>

---------------------------------------------------------------------------
(* The forecast feed: a JSON object with a forecasts array of days, each   *)
(* with an optional chanceOfRain object keyed by the four slot tokens.     *)
(* other says whether the object carries any other field.                  *)

SlotKeys == {"T00_06", "T06_12", "T12_18", "T18_24"}

Probabilities == {"10%", "90%"}

\* Every chanceOfRain object: any subset of the slot keys, any values.
ChanceMaps == UNION { [K -> Probabilities] : K \in SUBSET SlotKeys }

Day(chance) == [chanceOfRain |-> chance]

\* The days after today are drawn from four kinds of chanceOfRain: absent,
\* empty, partial and full.
LaterKinds == 1..4

LaterChance(kind) ==
    CASE kind = 1 -> Absent
      [] kind = 2 -> [k \in {} |-> "10%"]
      [] kind = 3 -> [k \in {"T06_12"} |-> "30%"]
      [] OTHER    -> [k \in SlotKeys |-> IF k = "T00_06" THEN "0%"
                                         ELSE IF k = "T06_12" THEN "20%"
                                         ELSE IF k = "T12_18" THEN "40%"
                                         ELSE "60%"]

\* The response of n >= 1 days: today's chanceOfRain, then the later days'.
MakeJson(n, today, later) ==
    [forecasts |-> ListVal([i \in 1..n |->
                      Day(IF i = 1 THEN today ELSE LaterChance(later[i]))]),
     other |-> TRUE]

\* Python truthiness of the decoded body: None and {} are falsy.
TruthyJson(j) == ~IsAbsent(j) /\ (j.other \/ ~IsAbsent(j.forecasts))

---------------------------------------------------------------------------
(* get_weather_forecast, and main, lines 150-155 *)

\* The ways get_weather_forecast ends: with the decoded body, or with None
\* after one of its three except clauses reported the failure.
FetchOutcomes == {"ok", "timeout", "request_error", "decode_error"}

\* The message of the except clause that catches the failure.  An
\* undecodable body is raised as a RequestException by the requests library
\* of today and as a ValueError by older ones: either clause may catch it.
FetchErrorMessages(outcome) ==
    CASE outcome = "timeout"       -> {"error_fetch_timeout"}
      [] outcome = "request_error" -> {"error_fetch_failed"}
      [] OTHER -> {"error_fetch_failed", "error_fetch_unexpected"}

FetchErrors ==
    {"error_fetch_timeout", "error_fetch_failed", "error_fetch_unexpected"}

\* A client that hands back the body it holds whatever the request did.
GetWeatherForecastAlways(outcome) == json

GetWeatherForecast(outcome) == IF outcome = "ok" THEN json ELSE Absent

FetchForecast ==
    /\ pc = "fetch"
    /\ \E outcome \in FetchOutcomes :
         LET result == GetWeatherForecast(outcome)
         IN  /\ weather_json' = result
             /\ fetches' = fetches + 1
             /\ IF outcome = "ok"
                THEN rendered' = rendered
                ELSE \E msg \in FetchErrorMessages(outcome) :
                         rendered' = rendered \o <<msg>>
             /\ IF ~TruthyJson(result)
                THEN /\ pc' = "done"
                     /\ status' = IF outcome = "ok" THEN "no_forecast"
                                  ELSE "fetch_failed"
                ELSE /\ pc' = "current"
                     /\ status' = status
    /\ UNCHANGED <<xml, json, location_data, default_pref_index,
                   selected_prefecture_name, selected_cities,
                   default_city_index, selected_city_name, city_code,
                   now_hour, weather_now, data, df, lookups>>

---------------------------------------------------------------------------
(* main, lines 157-179: the current precipitation probability *)

\* time_slots, in the order the dict is iterated.
time_slots ==
    << [key |-> "T00_06", start |-> 0,  end |-> 6],
       [key |-> "T06_12", start |-> 6,  end |-> 12],
       [key |-> "T12_18", start |-> 12, end |-> 18],
       [key |-> "T18_24", start |-> 18, end |-> 24] >>

\* Slots closed at both ends: an hour on a boundary falls in the earlier slot.
CurrentHourInSlotInclusive(slot, hour) ==
    \/ (slot.start <= hour /\ hour <= slot.end)
    \/ (slot.key = "T18_24" /\ hour >= slot.end)

\* current_hour_in_slot
CurrentHourInSlot(slot, hour) ==
    \/ (slot.start <= hour /\ hour < slot.end)
    \/ (slot.key = "T18_24" /\ hour >= slot.end)

\* for key, (start, end) in time_slots.items(): ... break
\* The position of the first slot holding the hour, 0 when none does.
RECURSIVE SlotFrom(_, _)
SlotFrom(hour, i) ==
    IF i > Len(time_slots) THEN 0
    ELSE IF CurrentHourInSlot(time_slots[i], hour) THEN i
    ELSE SlotFrom(hour, i + 1)

\* The fallback taken for every hour no slot holds, negative hours too.
CurrentSlotValueAnyHour(chance, hour) ==
    IF ~TruthyDict(chance) THEN Placeholder
    ELSE LET i == SlotFrom(hour, 1)
         IN  IF i # 0 THEN Get(chance, time_slots[i].key, Placeholder)
             ELSE Get(chance, "T18_24", Placeholder)

CurrentSlotValue(chance, hour) ==
    IF ~TruthyDict(chance) THEN Placeholder
    ELSE LET i == SlotFrom(hour, 1)
         IN  IF i # 0 THEN Get(chance, time_slots[i].key, Placeholder)
             ELSE IF hour >= 0 THEN Get(chance, "T18_24", Placeholder)
             ELSE Placeholder

\* datetime.now().hour
ClockHours == 0..23

\* weather_json.get('forecasts', default)
Forecasts(j, default) ==
    IF IsAbsent(j.forecasts) THEN default ELSE j.forecasts.list

ShowCurrent(hours) ==
    /\ pc = "current"
    /\ \E hour \in hours :
         LET forecasts == Forecasts(weather_json, <<Day(Absent)>>)
         IN  /\ now_hour' = hour
             /\ IF forecasts = <<>>
                THEN \* forecasts[0] raises IndexError, which nothing catches
                     /\ weather_now' = Placeholder
                     /\ rendered' = rendered
                     /\ pc' = "fault"
                     /\ status' = "fault"
                ELSE /\ weather_now' =
                            CurrentSlotValue(forecasts[1].chanceOfRain, hour)
                     /\ rendered' = rendered \o <<"metric">>
                     /\ pc' = "table"
                     /\ status' = status
    /\ UNCHANGED <<xml, json, location_data, default_pref_index,
                   selected_prefecture_name, selected_cities,
                   default_city_index, selected_city_name, city_code,
                   weather_json, data, df, lookups, fetches>>

---------------------------------------------------------------------------
(* main, lines 181-211: the three-day table *)

index_labels == <<"today", "tomorrow", "day_after_tomorrow">>

columns == <<"0-6", "6-12", "12-18", "18-24">>

\* A row whose two middle columns are exchanged.
RainProbabilitiesSwapped(chance) ==
    IF TruthyDict(chance)
    THEN << Get(chance, "T00_06", Placeholder),
            Get(chance, "T12_18", Placeholder),
            Get(chance, "T06_12", Placeholder),
            Get(chance, "T18_24", Placeholder) >>
    ELSE <<Placeholder, Placeholder, Placeholder, Placeholder>>

RainProbabilities(chance) ==
    IF TruthyDict(chance)
    THEN << Get(chance, "T00_06", Placeholder),
            Get(chance, "T06_12", Placeholder),
            Get(chance, "T12_18", Placeholder),
            Get(chance, "T18_24", Placeholder) >>
    ELSE <<Placeholder, Placeholder, Placeholder, Placeholder>>

\* for i in range(days_to_show): ... data.append(...)
RECURSIVE RowsLoop(_, _, _, _)
RowsLoop(forecasts, i, days_to_show, rows) ==
    IF i > days_to_show THEN rows
    ELSE RowsLoop(forecasts, i + 1, days_to_show,
                  Append(rows, RainProbabilities(forecasts[i].chanceOfRain)))

\* A table cut after two days.
DaysToShowTwo(forecasts) == Min(Len(forecasts), 2)

DaysToShow(forecasts) == Min(Len(forecasts), 3)

ShowTable ==
    /\ pc = "table"
    /\ LET forecasts == Forecasts(weather_json, <<>>)
           days_to_show == DaysToShow(forecasts)
           rows == RowsLoop(forecasts, 1, days_to_show, <<>>)
       IN  /\ data' = rows
           /\ IF rows # <<>>
              THEN /\ df' = [index   |-> SubSeq(index_labels, 1, days_to_show),
                             columns |-> columns,
                             rows    |-> rows]
                   /\ rendered' = rendered \o <<"dataframe">>
              ELSE /\ df' = df
                   /\ rendered' = rendered \o <<"warning_table">>
    /\ pc' = "done"
    /\ status' = "completed"
    /\ UNCHANGED <<xml, json, location_data, default_pref_index,
                   selected_prefecture_name, selected_cities,
                   default_city_index, selected_city_name, city_code,
                   weather_json, now_hour, weather_now, lookups, fetches>>

---------------------------------------------------------------------------
(* Specifications *)

\* A document of the default prefecture with the default city.
SampleDoc ==
    << [title  |-> DEFAULT_PREF,
        cities |-> << [id |-> "130010", title |-> DEFAULT_CITY] >>] >>

\* A response of one day with every slot.
SampleJson == MakeJson(1, LaterChance(4), <<>>)

\* The forecast feed serves any response of at most MaxDays days, an object
\* without the forecasts field, or an empty object.
AnyJson ==
    \/ \E other \in BOOLEAN : json = [forecasts |-> Absent, other |-> other]
    \/ json = [forecasts |-> ListVal(<<>>), other |-> TRUE]
    \/ \E n \in 1..MaxDays :
         \E later \in [2..n -> LaterKinds] :
            \/ json = MakeJson(n, Absent, later)
            \/ \E today \in ChanceMaps : json = MakeJson(n, today, later)

\* A run of main: either the location feed serves any document of the
\* bounded shapes, or the forecast feed serves any bounded response.
Init ==
    /\ InitRun
    /\ \/ InitDoc(DocShapes) /\ json = SampleJson
       \/ xml = SampleDoc /\ AnyJson

Next ==
    \/ Lookup
    \/ SelectPrefecture(ListedPrefectures)
    \/ SelectCity(ListedCities)
    \/ FetchForecast
    \/ ShowCurrent(ClockHours)
    \/ ShowTable

Spec == Init /\ [][Next]_vars

\* The hours of a clock that may be wrong by up to HourSlack either way.
AnyHours == (0 - HourSlack)..(23 + HourSlack)

\* The current reading as a function of the hour: the forecast feed serves
\* any response of one day, or none, and the hour is any of AnyHours.
InitSlot ==
    /\ InitRun
    /\ xml = SampleDoc
    /\ \/ json = [forecasts |-> Absent, other |-> TRUE]
       \/ json = MakeJson(1, Absent, <<>>)
       \/ \E today \in ChanceMaps : json = MakeJson(1, today, <<>>)

NextSlot ==
    \/ Lookup
    \/ SelectPrefecture(ListedPrefectures)
    \/ SelectCity(ListedCities)
    \/ FetchForecast
    \/ ShowCurrent(AnyHours)
    \/ ShowTable

SpecSlot == InitSlot /\ [][NextSlot]_vars

\* The code resolution as a function of the selection: the location feed
\* serves any document of one pref element, and the two select boxes hand
\* back any name, or None, whatever their options.
AnyPrefectures == {None, DEFAULT_PREF, OTHER_PREF}

AnyCities == {None, DEFAULT_CITY, OTHER_CITY}

InitResolve ==
    /\ InitRun
    /\ InitDoc({shape \in DocShapes : Len(shape) <= 1})
    /\ json = SampleJson

NextResolve ==
    \/ Lookup
    \/ SelectPrefecture(AnyPrefectures)
    \/ SelectCity(AnyCities)
    \/ FetchForecast
    \/ ShowCurrent(ClockHours)
    \/ ShowTable

SpecResolve == InitResolve /\ [][NextResolve]_vars

---------------------------------------------------------------------------
(* Properties *)

NonEmpty(s) == s \notin {None, ""}

MinOf(S) == CHOOSE i \in S : \A j \in S : i <= j

\* The k-th smallest element of a set of numbers.
Nth(S, k) == CHOOSE i \in S : Cardinality({j \in S : j < i}) = k - 1

\* The run has a directory from the lookup.
LookedUp == pc # "start" /\ ~IsAbsent(location_data)

DirectoryUsable == ~IsAbsent(location_data) /\ location_data.list # <<>>

\* The prefecture select box has returned, then the city select box.
PrefSelected == pc \notin {"start", "select_pref"} /\ status # "init_failed"

CitySelected == PrefSelected /\ pc # "select_city"

\* The current reading has been computed and shown.
CurrentShown == pc = "table" \/ status = "completed"

\* The days of the response, and today's chanceOfRain (absent when the
\* response has no forecasts field).
GivenDays ==
    IF IsAbsent(weather_json.forecasts) THEN <<>>
    ELSE weather_json.forecasts.list

TodayChance ==
    IF GivenDays = <<>> THEN Absent ELSE GivenDays[1].chanceOfRain

SlotOrder == <<"T00_06", "T06_12", "T12_18", "T18_24">>

SlotKeyOf(h) ==
    IF h < 6 THEN "T00_06"
    ELSE IF h < 12 THEN "T06_12"
    ELSE IF h < 18 THEN "T12_18"
    ELSE "T18_24"

\* The value a chanceOfRain holds for a key, the placeholder when the
\* mapping or the key is absent.
ValueOrPlaceholder(chance, key) ==
    IF IsAbsent(chance) \/ key \notin DOMAIN chance THEN "--" ELSE chance[key]

\* C1: for every hour of 0..23 and every chanceOfRain (absent, empty or any
\* subset of the slot keys) the current reading is the value of the one slot
\* whose range holds the hour, or "--" when that key is absent; never the
\* value of another slot.
C1_CurrentSlot ==
    (CurrentShown /\ now_hour \in 0..23)
        => weather_now = ValueOrPlaceholder(TodayChance, SlotKeyOf(now_hour))

\* Scenario C: chanceOfRain holds T06_12 alone and the hour is 20.
C1_Witness ==
    /\ CurrentShown
    /\ now_hour = 20
    /\ ~IsAbsent(TodayChance)
    /\ DOMAIN TodayChance = {"T06_12"}
    /\ weather_now = "--"

HourOutside == now_hour < 0 \/ now_hour >= 24

NonEmptyChance == ~IsAbsent(TodayChance) /\ DOMAIN TodayChance # {}

CitiesOfSelected ==
    LET dir == location_data.list
    IN  dir[MinOf({i \in 1..Len(dir) :
                      dir[i].name = selected_prefecture_name})].cities

\* C3: the default city index is the position of the first city named
\* DEFAULT_CITY only when the selected prefecture is DEFAULT_PREF and holds
\* such a city; it is 0 when DEFAULT_PREF lacks that city and 0 for every
\* other prefecture, even one holding a city of that name; it is always a
\* position of the city list.
C3_DefaultCityIndex ==
    PrefSelected =>
        LET cities == CitiesOfSelected
        IN  /\ default_city_index \in 0..(Len(cities) - 1)
            /\ IF /\ selected_prefecture_name = DEFAULT_PREF
                  /\ \E i \in 1..Len(cities) : cities[i].name = DEFAULT_CITY
               THEN /\ cities[default_city_index + 1].name = DEFAULT_CITY
                    /\ \A j \in 1..default_city_index :
                           cities[j].name # DEFAULT_CITY
               ELSE default_city_index = 0

\* Another prefecture whose second city is named DEFAULT_CITY is selected.
C3_Witness ==
    /\ PrefSelected
    /\ selected_prefecture_name = OTHER_PREF
    /\ Len(selected_cities) = 2
    /\ selected_cities[2].name = DEFAULT_CITY
    /\ default_city_index = 0

KeptCityIdx(p) ==
    {j \in 1..Len(p.cities) :
        NonEmpty(p.cities[j].id) /\ NonEmpty(p.cities[j].title)}

KeptPrefIdx ==
    {i \in 1..Len(xml) : NonEmpty(xml[i].title) /\ KeptCityIdx(xml[i]) # {}}

\* C4: in the directory built from a parseable document every prefecture
\* has a non-empty name and at least one city, every city a non-empty id
\* and a non-empty name; a pref element without a title, or whose cities
\* are all dropped, is absent; and the prefectures and cities kept are
\* those of the document in the document's order.
C4_Directory ==
    LookedUp =>
        LET dir == location_data.list
        IN  /\ \A k \in 1..Len(dir) :
                  /\ NonEmpty(dir[k].name)
                  /\ Len(dir[k].cities) >= 1
                  /\ \A m \in 1..Len(dir[k].cities) :
                         /\ NonEmpty(dir[k].cities[m].id)
                         /\ NonEmpty(dir[k].cities[m].name)
            /\ Len(dir) = Cardinality(KeptPrefIdx)
            /\ \A k \in 1..Len(dir) :
                  LET p == xml[Nth(KeptPrefIdx, k)]
                  IN  /\ dir[k].name = p.title
                      /\ Len(dir[k].cities) = Cardinality(KeptCityIdx(p))
                      /\ \A m \in 1..Len(dir[k].cities) :
                             LET c == p.cities[Nth(KeptCityIdx(p), m)]
                             IN  dir[k].cities[m] = [id |-> c.id, name |-> c.title]

\* A pref element of three cities whose second is dropped: the first and
\* the third are kept, in that order.
C4_Witness ==
    /\ LookedUp
    /\ Len(xml) = 1
    /\ KeptCityIdx(xml[1]) = {1, 3}
    /\ Len(location_data.list) = 1
    /\ Len(location_data.list[1].cities) = 2
    /\ location_data.list[1].cities[1].name # location_data.list[1].cities[2].name

\* C5: for a response of n days the table has min(n, 3) rows, labelled
\* today, tomorrow, day after tomorrow in that order, and every row has 4
\* values in the order T00_06, T06_12, T12_18, T18_24, each the day's value
\* for the key or "--" when the key or the mapping is absent; the days after
\* the third are not used.
C5_Table ==
    status = "completed" =>
        LET n == Len(GivenDays)
            rows == IF n < 3 THEN n ELSE 3
        IN  /\ Len(data) = rows
            /\ IF rows = 0 THEN IsAbsent(df)
               ELSE /\ ~IsAbsent(df)
                    /\ df.rows = data
                    /\ Len(df.index) = rows
                    /\ \A i \in 1..rows :
                           df.index[i] =
                               <<"today", "tomorrow", "day_after_tomorrow">>[i]
            /\ \A i \in 1..rows :
                  /\ Len(data[i]) = 4
                  /\ \A k \in 1..4 :
                         data[i][k] =
                             ValueOrPlaceholder(GivenDays[i].chanceOfRain,
                                                SlotOrder[k])

\* A response of four days whose second day holds T06_12 alone.
C5_Witness ==
    /\ status = "completed"
    /\ Len(GivenDays) = 4
    /\ Len(data) = 3
    /\ data[2] = <<"--", "30%", "--", "--">>

\* C6: after a forecast response was fetched and decoded, whatever number
\* of days it holds, an empty forecasts array included, the run never ends
\* in an uncaught fault.
C6_NoFault == pc # "fault"

FetchFailed == \E i \in 1..Len(rendered) : rendered[i] \in FetchErrors

\* C7: when the forecast fetch fails, by a timeout, a network or status
\* failure or an undecodable body, get_weather_forecast reports an error
\* and returns None, and the run ends there: no current reading, no table,
\* no second fetch.
C7_FetchFailure ==
    /\ status = "fetch_failed" => FetchFailed
    /\ FetchFailed =>
           /\ IsAbsent(weather_json)
           /\ pc = "done"
           /\ status = "fetch_failed"
           /\ rendered[Len(rendered)] \in FetchErrors
           /\ \A i \in 1..Len(rendered) :
                  rendered[i] \notin {"metric", "dataframe", "warning_table"}
           /\ data = <<>>
           /\ IsAbsent(df)
           /\ fetches = 1

\* The fetch timed out.
C7_Witness ==
    /\ status = "fetch_failed"
    /\ rendered[Len(rendered)] = "error_fetch_timeout"
    /\ fetches = 1

\* C8: a run makes at most one directory lookup and at most one forecast
\* fetch; the fetch comes only after the lookup returned a non-empty
\* directory and a code was resolved; with the directory absent or empty
\* the run stops as "initialization failed", nothing selected, nothing
\* fetched.
C8_OneLookupOneFetch ==
    /\ lookups <= 1
    /\ fetches <= 1
    /\ fetches = 1 => (lookups = 1 /\ DirectoryUsable /\ NonEmpty(city_code))
    /\ (pc # "start" /\ ~DirectoryUsable) =>
           /\ pc = "done"
           /\ status = "init_failed"
           /\ rendered[Len(rendered)] = "error_init"
           /\ selected_prefecture_name = None
           /\ selected_city_name = None
           /\ fetches = 0

\* The feed served pref elements, none of which survived the parse: the
\* directory is empty, not absent.
C8_Witness ==
    /\ pc = "done"
    /\ status = "init_failed"
    /\ ~IsAbsent(location_data)
    /\ location_data.list = <<>>
    /\ Len(xml) > 0
    /\ lookups = 1
    /\ fetches = 0

MatchIdx ==
    {i \in 1..Len(selected_cities) :
        selected_cities[i].name = selected_city_name}

\* C9: the resolved code is the id of the first city of the selected
\* prefecture's list whose name is the selected name, and none when no
\* city matches or the list is empty; on none the run ends as "selection
\* incomplete", with a warning and without a forecast fetch.
C9_ResolveCode ==
    CitySelected =>
        /\ city_code = (IF MatchIdx = {} THEN None
                        ELSE selected_cities[MinOf(MatchIdx)].id)
        /\ city_code = None =>
               /\ pc = "done"
               /\ status = "selection_incomplete"
               /\ rendered[Len(rendered)] = "warning_select"
               /\ fetches = 0

\* A name is selected that no city of a non-empty list bears.
C9_Witness ==
    /\ CitySelected
    /\ selected_cities # <<>>
    /\ selected_city_name = OTHER_CITY
    /\ city_code = None
    /\ status = "selection_incomplete"

\* C10: when the reading and the table are both shown for an hour of 0..23
\* and a response of at least one day, the reading is the value of the
\* table's first row in the column of the slot holding the hour.
C10_ReadingInTable ==
    (status = "completed" /\ Len(GivenDays) >= 1 /\ now_hour \in 0..23)
        => weather_now = data[1][(now_hour \div 6) + 1]

\* At 13 o'clock the reading is today's T12_18 value, which differs from
\* the T06_12 value beside it.
C10_Witness ==
    /\ status = "completed"
    /\ now_hour = 13
    /\ weather_now = "90%"
    /\ data[1][3] = "90%"
    /\ data[1][2] = "10%"

====
